---- MODULE Spec2Model ----
(***************************************************************************)
(* Model of the three scripts of opera-scripts:                            *)
(*   example_buffer_calculate_graph_and_export.py  (script "example")      *)
(*   halbach_2d_cylinders.py                       (script "halbach")      *)
(*   generate_circular_conductor.py                (script "conductor")    *)
(* A run executes one script from its first statement.  The Python         *)
(* namespace is the function store (a name is bound iff it is in DOMAIN    *)
(* store), the FEA host is the record host, and every host call and file   *)
(* write is appended to trace.  Text is a sequence of string chunks.       *)
(***************************************************************************)
EXTENDS Integers, Sequences, FiniteSets, TLC

VARIABLES script, pc, err, inp, store, host, trace, files, console, clipboard

vars == <<script, pc, err, inp, store, host, trace, files, console, clipboard>>

\* ------------------------------------------------------------------ bounds
MinCase == 9
MaxCase == 11
MaxPoints == 2
MaxBlocks == 3
MaxBgs == 2
MaxB == 2

\* ------------------------------------------------------- common helpers
None == <<>>
Some(v) == <<v>>
EmptyFn == [x \in {} |-> x]
Bind(name, val, st) == (name :> val) @@ st
Bound(name, st) == name \in DOMAIN st
Range(s) == {s[i] : i \in 1..Len(s)}
IndexOf(s, v) == CHOOSE i \in 1..Len(s) : s[i] = v /\ \A j \in 1..(i-1) : s[j] # v

DigitChars == <<"0", "1", "2", "3", "4", "5", "6", "7", "8", "9">>

\* str(n) and the format {n:d}: the decimal digits of n
RECURSIVE Str(_)
Str(n) ==
  IF n < 0 THEN <<"-">> \o Str(-n)
  ELSE IF n < 10 THEN <<DigitChars[n + 1]>>
  ELSE Str(n \div 10) \o <<DigitChars[(n % 10) + 1]>>

\* range(a, b): the integers a, a+1, ..., b-1 in ascending order
PyRange(a, b) == [k \in 1..(IF b > a THEN b - a ELSE 0) |-> a + k - 1]

\* zip(s, t): pairs up to the shorter of the two
Zip(s, t) ==
  [k \in 1..(IF Len(s) < Len(t) THEN Len(s) ELSE Len(t)) |-> <<s[k], t[k]>>]

\* np.array(rows).T : element [r][k] of the result is element [k][r] of rows
Transpose_NoT(rows) == rows
Transpose(rows) ==
  IF Len(rows) = 0 THEN <<>>
  ELSE [r \in 1..Len(rows[1]) |-> [k \in 1..Len(rows) |-> rows[k][r]]]

\* np.savetxt(fname, X, delimiter, newline, header): the header lines, each
\* behind the comment mark, then one line per row of X, its values joined by
\* the delimiter
SaveTxt(X, delimiter, headerLines) ==
  [comments |-> "# ", delimiter |-> delimiter,
   header |-> headerLines, rows |-> X]

\* An event of the run: a host call or a file write
Ev(op, args, creates, uses) ==
  [op |-> op, args |-> args, creates |-> creates, uses |-> uses]

Raise(exc) == /\ pc' = "error"
              /\ err' = exc

\* ------------------------------------------------------------- the host
AllFields == <<"X", "Y", "Th", "R", "B", "Bx", "By", "Bz", "J", "Jx", "Jy", "Jz">>

\* The value the host's field evaluation gives for a field at sample point p
\* of the loaded case; the B amplitude of a model solved in this run is the
\* solution the solver produced.
HostSample(h, f, p) ==
  IF f = "B" /\ h.solution # None
  THEN h.solution[1][p]
  ELSE h.loaded_case * 1000 + IndexOf(AllFields, f) * 10 + p

\* The columns of a buffer: the requested fields, behind the coordinate
\* columns the host adds by itself
HostExtraColumns == {<<>>, <<"Th">>}

HostBuffer(h, extra, fields, point_count) ==
  [columns |-> extra \o fields,
   data |-> [f \in Range(extra \o fields) |->
               [p \in 1..point_count |-> HostSample(h, f, p)]]]

HostInit ==
  [bodies |-> EmptyFn, materials |-> {}, properties |-> EmptyFn,
   bcs |-> {}, graphs |-> {}, buffers |-> EmptyFn, lines |-> EmptyFn,
   plotted |-> {}, loaded_case |-> 0, meshed |-> FALSE, solved |-> FALSE,
   solution |-> None]

\* =================================================================
\* example_buffer_calculate_graph_and_export.py
\* =================================================================
graph_name == <<"By_plot_after_pulse">>
buffer_name_preffix == <<"fields_at_">>
graph_line_name_preffix == <<"line_at_">>
fields_in_buffer == AllFields
plot_x_column == <<"x">>
plot_y_column == <<"By">>

ExampleInputs ==
  [initial_case : MinCase..MaxCase,
   final_case : (MinCase - 1)..MaxCase,
   points_in_buffer : 1..MaxPoints,
   buffer_filename_prefix : {None, Some(<<"fields_at_">>)}]

\* line 48: range(initial_case, final_case+1)
ExampleCases_Exclusive(in) == PyRange(in.initial_case, in.final_case)
ExampleCases(in) == PyRange(in.initial_case, in.final_case + 1)

\* lines 19-21: the three interfaces
ExInterfaces ==
  /\ script = "example" /\ pc = "ex_interfaces"
  /\ store' = Bind("model", "model", Bind("post", "post", Bind("graph", "graph", store)))
  /\ pc' = "ex_polyline"
  /\ UNCHANGED <<script, err, inp, host, trace, files, console, clipboard>>

\* line 42: the post-process polyline
ExPolyline ==
  /\ script = "example" /\ pc = "ex_polyline"
  /\ host' = [host EXCEPT !.bodies =
                Bind(<<"post_polyline">>, [kind |-> "polyline", pp_body |-> TRUE], @)]
  /\ store' = Bind("post_polyline", <<"post_polyline">>, store)
  /\ trace' = Append(trace, Ev("create_polyline", <<>>, {<<"post_polyline">>}, {}))
  /\ pc' = "ex_graph"
  /\ UNCHANGED <<script, err, inp, files, console, clipboard>>

\* line 46: graph.create_graph(graph_name)
ExCreateGraph ==
  /\ script = "example" /\ pc = "ex_graph"
  /\ host' = [host EXCEPT !.graphs = @ \cup {graph_name}]
  /\ trace' = Append(trace, Ev("create_graph", <<graph_name>>, {graph_name}, {}))
  /\ store' = Bind("cases", ExampleCases(inp),
                   Bind("k", 0, store))
  /\ pc' = "ex_for"
  /\ UNCHANGED <<script, err, inp, files, console, clipboard>>

\* line 48: for n in range(initial_case, final_case+1)
ExFor ==
  /\ script = "example" /\ pc = "ex_for"
  /\ IF store["k"] < Len(store["cases"])
     THEN /\ store' = Bind("n", store["cases"][store["k"] + 1],
                           Bind("k", store["k"] + 1, store))
          /\ pc' = "ex_names"
     ELSE /\ pc' = "done"
          /\ UNCHANGED store
  /\ UNCHANGED <<script, err, inp, host, trace, files, console, clipboard>>

\* lines 51-54: the case-specific names
ExNames ==
  /\ script = "example" /\ pc = "ex_names"
  /\ LET n == store["n"]
         st1 == Bind("buffer_name", buffer_name_preffix \o Str(n),
                     Bind("line_name", graph_line_name_preffix \o Str(n), store))
     IN store' = IF inp.buffer_filename_prefix # None
                 THEN Bind("buffer_filename",
                           inp.buffer_filename_prefix[1] \o Str(n) \o <<".csv">>, st1)
                 ELSE st1
  /\ pc' = "ex_load"
  /\ UNCHANGED <<script, err, inp, host, trace, files, console, clipboard>>

\* line 57: post.load_case_number(n)
ExLoadCase ==
  /\ script = "example" /\ pc = "ex_load"
  /\ host' = [host EXCEPT !.loaded_case = store["n"]]
  /\ trace' = Append(trace, Ev("load_case_number", <<Str(store["n"])>>, {}, {}))
  /\ pc' = "ex_buffer"
  /\ UNCHANGED <<script, err, inp, store, files, console, clipboard>>

\* lines 60-63: the buffer on the polyline's edges
ExCreateBuffer ==
  /\ script = "example" /\ pc = "ex_buffer"
  /\ \E extra \in HostExtraColumns :
       /\ Range(extra) \cap Range(fields_in_buffer) = {}
       /\ host' = [host EXCEPT !.buffers =
                     Bind(store["buffer_name"],
                          HostBuffer(host, extra, fields_in_buffer, inp.points_in_buffer), @)]
  /\ store' = Bind("my_buffer", store["buffer_name"], store)
  /\ trace' = Append(trace, Ev("create_buffer_from_fields_on_edges",
                               <<store["buffer_name"]>>,
                               {store["buffer_name"]}, {store["post_polyline"]}))
  /\ pc' = "ex_line"
  /\ UNCHANGED <<script, err, inp, files, console, clipboard>>

\* lines 66-70: the graph line from the buffer
ExCreateLine ==
  /\ script = "example" /\ pc = "ex_line"
  /\ host' = [host EXCEPT !.lines =
                Bind(store["line_name"],
                     [buffer |-> store["buffer_name"],
                      x |-> plot_x_column, y |-> plot_y_column], @)]
  /\ store' = Bind("my_line", store["line_name"], store)
  /\ trace' = Append(trace, Ev("create_line_from_buffer",
                               <<store["line_name"], store["buffer_name"]>>,
                               {store["line_name"]}, {store["buffer_name"]}))
  /\ pc' = "ex_plot"
  /\ UNCHANGED <<script, err, inp, files, console, clipboard>>

\* line 71: graph.plot_line(my_line, graph_name)
ExPlotLine ==
  /\ script = "example" /\ pc = "ex_plot"
  /\ host' = [host EXCEPT !.plotted = @ \cup {<<store["my_line"], graph_name>>}]
  /\ trace' = Append(trace, Ev("plot_line", <<store["my_line"], graph_name>>,
                               {}, {store["my_line"], graph_name}))
  /\ pc' = "ex_read"
  /\ UNCHANGED <<script, err, inp, store, files, console, clipboard>>

\* lines 74-76: the column names, then one array per column
ExReadBuffer ==
  /\ script = "example" /\ pc = "ex_read"
  /\ LET b == host.buffers[store["buffer_name"]]
     IN store' = Bind("buffer_column_names", b.columns,
                      Bind("buffer_data_rows",
                           [k \in 1..Len(b.columns) |-> b.data[b.columns[k]]], store))
  /\ trace' = Append(trace, Ev("get_column_data", <<store["buffer_name"]>>,
                               {}, {store["buffer_name"]}))
  /\ pc' = "ex_save"
  /\ UNCHANGED <<script, err, inp, host, files, console, clipboard>>

\* lines 77-81: np.savetxt(buffer_filename, np.array(buffer_data_rows).T, ...)
ExSaveTxt ==
  /\ script = "example" /\ pc = "ex_save"
  /\ IF Bound("buffer_filename", store)
     THEN /\ files' = Bind(store["buffer_filename"],
                           SaveTxt(Transpose(store["buffer_data_rows"]), ",",
                                   <<store["buffer_column_names"]>>), files)
          /\ trace' = Append(trace, Ev("savetxt", <<store["buffer_filename"]>>,
                                       {}, {}))
          /\ pc' = "ex_for"
          /\ UNCHANGED err
     ELSE /\ Raise("NameError")
          /\ UNCHANGED <<files, trace>>
  /\ UNCHANGED <<script, inp, store, host, console, clipboard>>

ExampleNext ==
  \/ ExInterfaces \/ ExPolyline \/ ExCreateGraph \/ ExFor \/ ExNames
  \/ ExLoadCase \/ ExCreateBuffer \/ ExCreateLine \/ ExPlotLine
  \/ ExReadBuffer \/ ExSaveTxt

\* =================================================================
\* halbach_2d_cylinders.py
\* =================================================================
bore_diameter == 270
gfr_radius == 20
mesh_max == 32
model_name_prefix == <<"halbach">>
gfr_fields == <<"B", "Bx", "By", "Bz">>

\* A length a/b of a named quantity: 0.5*device_diameter is Len("device_diameter", 1, 2)
Length(sym, num, den) == [sym |-> sym, num |-> num, den |-> den]

\* bgs_factor in tenths (1.1 is 11), bgs_mesh as the divisor of bore_diameter
\* (bore_diameter/80 is 80): the layers a run may be given, factor then mesh
BgLayers == {<<11, 80>>, <<50, 5>>}
mesh_blocks == Length("bore_diameter", 1, 80)
mesh_core == Length("bore_diameter", 1, 80)

HalbachInputs ==
  {[n_blocks |-> n, bgs_factor |-> [k \in 1..Len(fm) |-> fm[k][1]],
    bgs_mesh |-> [k \in 1..Len(fm) |-> fm[k][2]], gfr_points |-> g] :
     n \in 1..MaxBlocks, g \in 1..MaxPoints,
     fm \in UNION {[1..l -> BgLayers] : l \in 0..MaxBgs}}

\* The statements of the script in the order the file has them
HalbachOrder_MeshAfterSolve ==
  <<"h_interfaces", "h_materials", "h_dims", "h_core", "h_upper_block",
    "h_copy_blocks", "h_properties", "h_block_loop", "h_bgs_loop",
    "h_send_back", "h_bc_create", "h_bc_assign", "h_solve", "h_mesh",
    "h_post_circle", "h_graph", "h_buffer", "h_line", "h_plot", "h_read",
    "h_minmax", "h_field_at_point", "h_save", "h_console", "h_view", "done">>
HalbachOrder ==
  <<"h_interfaces", "h_materials", "h_dims", "h_core", "h_upper_block",
    "h_copy_blocks", "h_properties", "h_block_loop", "h_bgs_loop",
    "h_send_back", "h_bc_create", "h_bc_assign", "h_mesh", "h_solve",
    "h_post_circle", "h_graph", "h_buffer", "h_line", "h_plot", "h_read",
    "h_minmax", "h_field_at_point", "h_save", "h_console", "h_view", "done">>
HAfter(label) == HalbachOrder[IndexOf(HalbachOrder, label) + 1]

\* A body of the host model
Body(kind, name, radius, pp) ==
  [kind |-> kind, name |-> name, radius |-> radius, pp_body |-> pp,
   angle |-> [num |-> 0, den |-> 1], material |-> None, mesh |-> None,
   properties |-> None, back |-> FALSE, bc_edges |-> None, bc_vertices |-> None]

\* model.copy_bodies([b], rotation_copies=c, rotation_angle=num/den degrees):
\* copy k is b turned by k times the angle
HostCopyBodies(b, copies, num, den) ==
  [k \in 1..copies |-> [b EXCEPT !.angle = [num |-> k * num, den |-> den]]]

\* line 138: 90+(i*720/n_blocks)%360, as the fraction num/den
EasyAxisAngle_Once(i, n) == [num |-> 90 * n + ((i * 360) % (360 * n)), den |-> n]
EasyAxisAngle(i, n) == [num |-> 90 * n + ((i * 720) % (360 * n)), den |-> n]

\* line 135: one property set per block index
PropertyNames_Short(n) == [k \in 1..(n - 1) |-> <<"easy-axis_">> \o Str(k - 1)]
PropertyNames(n) == [k \in 1..Len(PyRange(0, n)) |-> <<"easy-axis_">> \o Str(PyRange(0, n)[k])]

\* bgs[-1]
LastOf_First(s) == s[1]
LastOf(s) == s[Len(s)]

SeqMin(s) == CHOOSE v \in Range(s) : \A w \in Range(s) : v <= w
SeqMax(s) == CHOOSE v \in Range(s) : \A w \in Range(s) : v >= w

HStep(label) == script = "halbach" /\ pc = label /\ pc' = HAfter(label)

\* lines 68-78: interfaces, units, analysis settings
HInterfaces ==
  /\ HStep("h_interfaces")
  /\ trace' = trace \o <<Ev("use_si_units", <<>>, {}, {}),
                         Ev("use_unit", <<>>, {}, {})>>
  /\ UNCHANGED <<script, err, inp, store, host, files, console, clipboard>>

\* lines 84-94: the two materials and the BH curve
HMaterials ==
  /\ HStep("h_materials")
  /\ host' = [host EXCEPT !.materials = @ \cup {<<"Aluminium">>, <<"NdFeB">>}]
  /\ trace' = trace \o <<Ev("create_material", <<<<"Aluminium">>>>, {<<"Aluminium">>}, {}),
                         Ev("create_bh_curve", <<<<"NdFeB">>>>, {<<"bh_curve_ndfeb">>}, {}),
                         Ev("create_material", <<<<"NdFeB">>>>, {<<"NdFeB">>},
                            {<<"bh_curve_ndfeb">>})>>
  /\ UNCHANGED <<script, err, inp, store, files, console, clipboard>>

\* lines 101-106: block and device diameters (closed forms of the inputs)
HDims ==
  /\ HStep("h_dims")
  /\ store' = Bind("block_diameter", Length("block_diameter", 1, 1),
                   Bind("device_diameter", Length("device_diameter", 1, 1), store))
  /\ UNCHANGED <<script, err, inp, host, trace, files, console, clipboard>>

\* lines 108-127: the aluminium core, by boolean operations on three bodies
HCore ==
  /\ HStep("h_core")
  /\ host' = [host EXCEPT !.bodies =
       Bind(<<"core">>,
            [Body("core", <<"core">>, Length("device_diameter", 1, 2), FALSE)
               EXCEPT !.material = Some(<<"Aluminium">>), !.mesh = Some(mesh_core)], @)]
  /\ trace' = trace \o
       <<Ev("create_circle", <<>>, {<<"core_base">>}, {}),
         Ev("create_circle", <<>>, {<<"core_cut_1">>}, {}),
         Ev("boolean_subtraction", <<>>, {<<"core_full">>}, {<<"core_base">>, <<"core_cut_1">>}),
         Ev("create_rectangle", <<>>, {<<"core_cut_2">>}, {}),
         Ev("boolean_intersection", <<>>, {<<"core_quarter_1">>}, {<<"core_full">>, <<"core_cut_2">>}),
         Ev("copy_bodies", <<>>, {<<"core_quarter_2">>}, {<<"core_quarter_1">>}),
         Ev("boolean_nonregular_union", <<>>, {<<"core_quarter_12">>},
            {<<"core_quarter_1">>, <<"core_quarter_2">>}),
         Ev("copy_bodies", <<>>, {<<"core_quarter_34">>}, {<<"core_quarter_12">>}),
         Ev("boolean_nonregular_union", <<>>, {<<"core">>},
            {<<"core_quarter_12">>, <<"core_quarter_34">>}),
         Ev("set_region", <<>>, {}, {<<"core">>, <<"Aluminium">>})>>
  /\ UNCHANGED <<script, err, inp, store, files, console, clipboard>>

\* lines 129-131: the first magnet cylinder
HUpperBlock ==
  /\ HStep("h_upper_block")
  /\ host' = [host EXCEPT !.bodies =
       Bind(<<"upper_block">>,
            Body("block", None, Length("block_diameter", 1, 2), FALSE), @)]
  /\ trace' = Append(trace, Ev("create_circle", <<>>, {<<"upper_block">>}, {}))
  /\ UNCHANGED <<script, err, inp, store, files, console, clipboard>>

\* lines 132-134: blocks = [upper_block] + the n_blocks-1 rotation copies
HCopyBlocks ==
  /\ HStep("h_copy_blocks")
  /\ LET copies == HostCopyBodies(host.bodies[<<"upper_block">>],
                                  inp.n_blocks - 1, 360, inp.n_blocks)
         ids == [k \in 1..Len(copies) |-> <<"upper_block_copy_">> \o Str(k)]
     IN /\ host' = [host EXCEPT !.bodies =
              [id \in DOMAIN @ \cup Range(ids) |->
                 IF id \in Range(ids) THEN copies[IndexOf(ids, id)] ELSE @[id]]]
        /\ store' = Bind("blocks", <<<<"upper_block">>>> \o ids, store)
        /\ trace' = Append(trace, Ev("copy_bodies", <<>>, Range(ids), {<<"upper_block">>}))
  /\ UNCHANGED <<script, err, inp, files, console, clipboard>>

\* line 135: properties = [create_properties('easy-axis_i') for i in range(n_blocks)]
HProperties ==
  /\ HStep("h_properties")
  /\ LET names == PropertyNames(inp.n_blocks)
     IN /\ host' = [host EXCEPT !.properties =
              [nm \in Range(names) |-> [rotation_angle |-> None]]]
        /\ store' = Bind("properties", names, Bind("i", 0, store))
        /\ trace' = trace \o [k \in 1..Len(names) |->
                                Ev("create_properties", <<names[k]>>, {names[k]}, {})]
  /\ UNCHANGED <<script, err, inp, files, console, clipboard>>

\* lines 136-142: one pass of the loop over enumerate(zip(blocks, properties))
HBlockLoop ==
  /\ script = "halbach" /\ pc = "h_block_loop"
  /\ LET pairs == Zip(store["blocks"], store["properties"])
         i == store["i"]
     IN IF i < Len(pairs)
        THEN LET block == pairs[i + 1][1]
                 property == pairs[i + 1][2]
             IN /\ host' = [host EXCEPT
                      !.bodies[block] =
                         [@ EXCEPT !.name = <<"block_">> \o Str(i),
                                   !.material = Some(<<"NdFeB">>),
                                   !.properties = Some(property),
                                   !.mesh = Some(mesh_blocks)],
                      !.properties[property].rotation_angle =
                         Some(EasyAxisAngle(i, inp.n_blocks))]
                /\ trace' = Append(trace, Ev("set_region", <<>>, {},
                                             {block, property, <<"NdFeB">>}))
                /\ store' = Bind("i", i + 1, store)
                /\ pc' = pc
        ELSE /\ pc' = HAfter("h_block_loop")
             /\ store' = Bind("bgs", <<>>, Bind("i", 0, store))
             /\ UNCHANGED <<host, trace>>
  /\ UNCHANGED <<script, err, inp, files, console, clipboard>>

\* lines 148-154: one pass of the loop over enumerate(zip(bgs_factor, bgs_mesh))
HBgsLoop ==
  /\ script = "halbach" /\ pc = "h_bgs_loop"
  /\ LET pairs == Zip(inp.bgs_factor, inp.bgs_mesh)
         i == store["i"]
     IN IF i < Len(pairs)
        THEN LET id == <<"bg">> \o Str(i)
             IN /\ host' = [host EXCEPT !.bodies =
                      Bind(id, [Body("background", id,
                                     Length("device_diameter", pairs[i + 1][1], 20), FALSE)
                                  EXCEPT !.mesh = Some(Length("bore_diameter", 1, pairs[i + 1][2]))],
                           @)]
                /\ trace' = Append(trace, Ev("create_circle", <<id>>, {id}, {}))
                /\ store' = Bind("bgs", Append(store["bgs"], id), Bind("i", i + 1, store))
                /\ pc' = pc
        ELSE /\ pc' = HAfter("h_bgs_loop")
             /\ UNCHANGED <<host, trace, store>>
  /\ UNCHANGED <<script, err, inp, files, console, clipboard>>

\* lines 155-156: for bg in bgs: model.send_to_back(bg)
HSendBack ==
  /\ HStep("h_send_back")
  /\ LET bgs == store["bgs"]
     IN /\ host' = [host EXCEPT !.bodies =
              [id \in DOMAIN @ |-> IF id \in Range(bgs)
                                   THEN [@[id] EXCEPT !.back = TRUE] ELSE @[id]]]
        /\ trace' = trace \o [k \in 1..Len(bgs) |->
                                Ev("send_to_back", <<bgs[k]>>, {}, {bgs[k]})]
  /\ UNCHANGED <<script, err, inp, store, files, console, clipboard>>

\* lines 158-159: the tangential-magnetic boundary condition
HBcCreate ==
  /\ HStep("h_bc_create")
  /\ host' = [host EXCEPT !.bcs = @ \cup {<<"tangent_magnetic">>}]
  /\ trace' = Append(trace, Ev("create_boundary_condition", <<<<"tangent_magnetic">>>>,
                               {<<"tangent_magnetic">>}, {}))
  /\ UNCHANGED <<script, err, inp, store, files, console, clipboard>>

\* lines 160-163: the condition on every edge and vertex of bgs[-1]
HBcAssign ==
  /\ script = "halbach" /\ pc = "h_bc_assign"
  /\ IF store["bgs"] = <<>>
     THEN /\ Raise("IndexError")
          /\ UNCHANGED <<host, trace>>
     ELSE LET last == LastOf(store["bgs"])
          IN /\ host' = [host EXCEPT !.bodies[last] =
                   [@ EXCEPT !.bc_edges = Some(<<"tangent_magnetic">>),
                             !.bc_vertices = Some(<<"tangent_magnetic">>)]]
             /\ trace' = Append(trace, Ev("set_boundary_condition", <<last>>, {},
                                          {last, <<"tangent_magnetic">>}))
             /\ pc' = HAfter("h_bc_assign")
             /\ UNCHANGED err
  /\ UNCHANGED <<script, inp, store, files, console, clipboard>>

\* line 170: model.generate_mesh()
HMesh ==
  /\ HStep("h_mesh")
  /\ host' = [host EXCEPT !.meshed = TRUE]
  /\ trace' = Append(trace, Ev("generate_mesh", <<>>, {}, {}))
  /\ UNCHANGED <<script, err, inp, store, files, console, clipboard>>

\* line 172: model.solve(...); the solver's B amplitude along the GFR circle
HSolve ==
  /\ HStep("h_solve")
  /\ \E sol \in [1..inp.gfr_points -> 1..MaxB] :
       host' = [host EXCEPT !.solved = TRUE, !.solution = Some(sol)]
  /\ trace' = Append(trace, Ev("solve", <<model_name_prefix \o <<".op2_h5">>>>, {}, {}))
  /\ store' = Bind("time_mesh", "t1 - t0", Bind("time_solve", "t2 - t1", store))
  /\ UNCHANGED <<script, err, inp, files, console, clipboard>>

\* lines 183-184: the post-processing circle of radius gfr_radius
HPostCircle ==
  /\ HStep("h_post_circle")
  /\ host' = [host EXCEPT !.bodies =
       Bind(<<"post_circle">>, Body("circle", None, gfr_radius, TRUE), @)]
  /\ trace' = Append(trace, Ev("create_circle", <<>>, {<<"post_circle">>}, {}))
  /\ UNCHANGED <<script, err, inp, store, files, console, clipboard>>

\* line 186: graph.create_graph('graph_gfr_field_amplitude')
HGraph ==
  /\ HStep("h_graph")
  /\ host' = [host EXCEPT !.graphs = @ \cup {<<"graph_gfr_field_amplitude">>}]
  /\ trace' = Append(trace, Ev("create_graph", <<<<"graph_gfr_field_amplitude">>>>,
                               {<<"graph_gfr_field_amplitude">>}, {}))
  /\ UNCHANGED <<script, err, inp, store, files, console, clipboard>>

\* lines 188-192: the buffer of B, Bx, By, Bz on the circle's edges
HBuffer ==
  /\ HStep("h_buffer")
  /\ \E extra \in HostExtraColumns :
       /\ Range(extra) \cap Range(gfr_fields) = {}
       /\ host' = [host EXCEPT !.buffers =
                     Bind(<<"buffer_gfr_fields">>,
                          HostBuffer(host, extra, gfr_fields, inp.gfr_points), @)]
  /\ trace' = Append(trace, Ev("create_buffer_from_fields_on_edges",
                               <<<<"buffer_gfr_fields">>>>,
                               {<<"buffer_gfr_fields">>}, {<<"post_circle">>}))
  /\ UNCHANGED <<script, err, inp, store, files, console, clipboard>>

\* lines 194-198: the graph line B over Th
HLine ==
  /\ HStep("h_line")
  /\ host' = [host EXCEPT !.lines =
                Bind(<<"line_gfr_field_amplitude">>,
                     [buffer |-> <<"buffer_gfr_fields">>, x |-> <<"Th">>, y |-> <<"B">>], @)]
  /\ trace' = Append(trace, Ev("create_line_from_buffer",
                               <<<<"line_gfr_field_amplitude">>, <<"buffer_gfr_fields">>>>,
                               {<<"line_gfr_field_amplitude">>}, {<<"buffer_gfr_fields">>}))
  /\ UNCHANGED <<script, err, inp, store, files, console, clipboard>>

\* lines 199-203: plot the line and set its pen and symbol
HPlot ==
  /\ HStep("h_plot")
  /\ host' = [host EXCEPT !.plotted =
                @ \cup {<<<<"line_gfr_field_amplitude">>, <<"graph_gfr_field_amplitude">>>>}]
  /\ trace' = trace \o
       <<Ev("plot_line", <<<<"line_gfr_field_amplitude">>, <<"graph_gfr_field_amplitude">>>>,
            {}, {<<"line_gfr_field_amplitude">>, <<"graph_gfr_field_amplitude">>}),
         Ev("set_line_properties",
            <<<<"line_gfr_field_amplitude">>, <<"graph_gfr_field_amplitude">>>>,
            {}, {<<"line_gfr_field_amplitude">>, <<"graph_gfr_field_amplitude">>})>>
  /\ UNCHANGED <<script, err, inp, store, files, console, clipboard>>

\* lines 205-207: the column names, then one array per column
HRead ==
  /\ HStep("h_read")
  /\ LET b == host.buffers[<<"buffer_gfr_fields">>]
     IN store' = Bind("buffer_column_names", b.columns,
                      Bind("buffer_data_rows",
                           [k \in 1..Len(b.columns) |-> b.data[b.columns[k]]], store))
  /\ trace' = Append(trace, Ev("get_column_data", <<<<"buffer_gfr_fields">>>>,
                               {}, {<<"buffer_gfr_fields">>}))
  /\ UNCHANGED <<script, err, inp, host, files, console, clipboard>>

\* lines 209-210: bmin and bmax of the B column
HMinMax ==
  /\ HStep("h_minmax")
  /\ LET col == store["buffer_data_rows"][IndexOf(store["buffer_column_names"], "B")]
     IN store' = Bind("bmin", SeqMin(col), Bind("bmax", SeqMax(col), store))
  /\ UNCHANGED <<script, err, inp, host, trace, files, console, clipboard>>

\* lines 211-213: the central field b0 and the homogeneity
\* 1e6*(bmax - bmin)/(2*b0), kept as a fraction
HFieldAtPoint ==
  /\ HStep("h_field_at_point")
  /\ \E b0 \in 1..MaxB :
       store' = Bind("b0", b0,
                     Bind("hom", [num |-> 1000000 * (store["bmax"] - store["bmin"]),
                                  den |-> 2 * b0], store))
  /\ trace' = Append(trace, Ev("calculate_field_at_point", <<>>, {}, {}))
  /\ UNCHANGED <<script, err, inp, host, files, console, clipboard>>

\* One labelled line: the label, the value and the format it is written in
Entry(label, value, fmt) == [label |-> label, value |-> value, fmt |-> fmt]

\* lines 216-240: the labelled lines of the .dat header
HeaderEntries(in, st) ==
  <<Entry("n_blocks", in.n_blocks, ""),
    Entry("bore_diameter (mm)", bore_diameter, ""),
    Entry("gap_blocks", "gap_blocks", ""),
    Entry("gap_blocks (mm)", "gap_blocks*block_diameter", ""),
    Entry("core_inner_thickness", "core_inner_thickness", ""),
    Entry("core_inner_thickness (mm)", "core_inner_thickness*block_diameter", ""),
    Entry("core_outer_thickness", "core_outer_thickness", ""),
    Entry("core_outer_thickness (mm)", "core_outer_thickness*block_diameter", ""),
    Entry("gfr_radius (mm)", gfr_radius, ""),
    Entry("gfr_points", in.gfr_points, ""),
    Entry("mesh_blocks (mm)", mesh_blocks, ""),
    Entry("mesh_core (mm)", mesh_core, ""),
    Entry("bgs_factor", in.bgs_factor, ""),
    Entry("bgs_mesh (mm)", in.bgs_mesh, ""),
    Entry("mesh_max (mm)", mesh_max, ""),
    Entry("Block diameter (mm)", st["block_diameter"], ""),
    Entry("Device diameter (mm)", st["device_diameter"], ""),
    Entry("Meshing time (s)", st["time_mesh"], ""),
    Entry("Solving time (s)", st["time_solve"], ""),
    Entry("Central field (T)", st["b0"], ".12f"),
    Entry("GFR radius (mm)", st["bmin"], ".12f"),
    Entry("GFR boundary max. B (T)", st["bmin"], ".12f"),
    Entry("GFR boundary min. B (T)", st["bmax"], ".12f"),
    Entry("GFR homogeneity (p.p.m.)", st["hom"], ".2f")>>

\* lines 216-246: the header, closed by the joined column names, and the
\* transposed columns
HSave ==
  /\ HStep("h_save")
  /\ LET fname == model_name_prefix \o <<"_gfr_fields.dat">>
     IN /\ files' = Bind(fname,
                         SaveTxt(Transpose(store["buffer_data_rows"]), ",",
                                 Append(HeaderEntries(inp, store),
                                        store["buffer_column_names"])), files)
        /\ trace' = Append(trace, Ev("savetxt", <<fname>>, {}, {}))
  /\ UNCHANGED <<script, err, inp, store, host, console, clipboard>>

\* lines 249-264: the console summary
ConsoleLines(in, st) ==
  <<Entry("Bore diameter", bore_diameter, ".3f"),
    Entry("Cylinders diameter:", st["block_diameter"], ".3f"),
    Entry("Gap cyl-cyl", "gap_blocks*block_diameter", ".4f"),
    Entry("Gap cyl-inner", "core_inner_thickness*block_diameter", ".4f"),
    Entry("Gap cyl-outer", "core_outer_thickness*block_diameter", ".4f"),
    Entry("Outer device diameter", st["device_diameter"], ".4f"),
    Entry("Meshing time", st["time_mesh"], ".3f"),
    Entry("Solving time", st["time_solve"], ".3f"),
    Entry("GFR radius", gfr_radius, ".4f"),
    Entry("Central field", st["b0"], ".12f"),
    Entry("B min. at GFR boundary", st["bmin"], ".12f"),
    Entry("B max. at GFR boundary", st["bmax"], ".12f"),
    Entry("GFR field homogeneity", st["hom"], ".2f")>>

HConsole ==
  /\ HStep("h_console")
  /\ console' = console \o ConsoleLines(inp, store)
  /\ UNCHANGED <<script, err, inp, store, host, trace, files, clipboard>>

\* lines 270-287: fit the view and draw the flux lines
HView ==
  /\ HStep("h_view")
  /\ trace' = trace \o <<Ev("zoom_fit", <<>>, {}, {}),
                         Ev("get_color_map", <<>>, {<<"default_color_map">>}, {}),
                         Ev("calculate_contour_map", <<<<"Flux Lines">>>>, {},
                            {<<"default_color_map">>})>>
  /\ UNCHANGED <<script, err, inp, store, host, files, console, clipboard>>

HalbachNext ==
  \/ HInterfaces \/ HMaterials \/ HDims \/ HCore \/ HUpperBlock \/ HCopyBlocks
  \/ HProperties \/ HBlockLoop \/ HBgsLoop \/ HSendBack \/ HBcCreate
  \/ HBcAssign \/ HMesh \/ HSolve \/ HPostCircle \/ HGraph \/ HBuffer
  \/ HLine \/ HPlot \/ HRead \/ HMinMax \/ HFieldAtPoint \/ HSave
  \/ HConsole \/ HView

\* =================================================================
\* generate_circular_conductor.py
\* =================================================================
length == 450

ConductorInputs ==
  [pyperclip_installed : BOOLEAN,
   angle : {None, Some(30)},
   rotation_center_y : {None, Some(100)}]

\* A point: x and y as multiples of the wire radius, z as a multiple of the
\* length, turned rot times by rotx (angle/2 each) about (0, center, 0)
Point(x, y, z, rot, center) == [x |-> x, y |-> y, z |-> z, rot |-> rot, center |-> center]

\* lines 38-41 and 59-62
Face1Corners ==
  <<Point("sqr*radius", "sqr*radius", "0", 0, None),
    Point("sqr*radius", "-sqr*radius", "0", 0, None),
    Point("-sqr*radius", "-sqr*radius", "0", 0, None),
    Point("-sqr*radius", "sqr*radius", "0", 0, None)>>

\* lines 42-45 and 63-66
Face1Extremes ==
  <<Point("radius", "0", "0", 0, None),
    Point("0", "-radius", "0", 0, None),
    Point("-radius", "0", "0", 0, None),
    Point("0", "radius", "0", 0, None)>>

\* face + np.array([0, 0, dz])
ShiftZ(face, dz) == [k \in 1..Len(face) |-> [face[k] EXCEPT !.z = dz]]

\* rotx applied times times to (p - center), moved back by + center
RotX(face, times, center) ==
  [k \in 1..Len(face) |-> [face[k] EXCEPT !.rot = times, !.center = center]]

\* lines 38-49: the straight conductor
StraightFaces ==
  [face1_corners |-> Face1Corners,
   face1_extremes |-> Face1Extremes,
   face2_corners |-> ShiftZ(Face1Corners, "length/2"),
   face3_corners |-> ShiftZ(Face1Corners, "length"),
   face3_extremes |-> ShiftZ(Face1Extremes, "length")]

\* lines 53-84: the conductor curved about (0, rotation_center_y, 0)
CurvedFaces(center) ==
  [face1_corners |-> RotX(Face1Corners, 0, center),
   face1_extremes |-> RotX(Face1Extremes, 0, center),
   face2_corners |-> RotX(Face1Corners, 1, center),
   face3_corners |-> RotX(Face1Corners, 2, center),
   face3_extremes |-> RotX(Face1Extremes, 2, center)]

\* lines 88-92: np.concatenate of the five faces
AllPoints(st) ==
  st["face1_corners"] \o st["face3_corners"] \o st["face1_extremes"]
    \o st["face2_corners"] \o st["face3_extremes"]

\* One KEY=VALUE of the command; space tells whether a blank follows it
Tok(key, val, space) == [key |-> key, val |-> val, space |-> space]

\* lines 96-101: XPn, YPn, ZPn of the points paired with range(1, 21)
PointToks(points) ==
  LET pairs == Zip(PyRange(1, 21), points)
      One(k) == <<Tok(<<"XP">> \o Str(pairs[k][1]), <<pairs[k][2], "x">>, TRUE),
                  Tok(<<"YP">> \o Str(pairs[k][1]), <<pairs[k][2], "y">>, TRUE),
                  Tok(<<"ZP">> \o Str(pairs[k][1]), <<pairs[k][2], "z">>, TRUE)>>
  IN [j \in 1..(3 * Len(pairs)) |-> One(((j - 1) \div 3) + 1)[((j - 1) % 3) + 1]]

\* lines 103-107: the trailing parameters, as the five appends write them
TailToks ==
  <<Tok(<<"INCIRCUIT">>, "NO", TRUE), Tok(<<"CIRCUITELEMENT">>, "", TRUE),
    Tok(<<"CURD">>, "current_dens", TRUE), Tok(<<"TOLERANCE">>, "tolerance", TRUE),
    Tok(<<"DRIVELABEL">>, "'drive_label'", TRUE),
    Tok(<<"THETA2">>, "0", TRUE), Tok(<<"PHI2">>, "0", TRUE), Tok(<<"PSI2">>, "0", TRUE),
    Tok(<<"XCEN2">>, "0", TRUE), Tok(<<"YCEN2">>, "0", TRUE), Tok(<<"ZCEN2">>, "0", TRUE),
    Tok(<<"LCNAME">>, "'coordinate_system'", TRUE), Tok(<<"RXY">>, "0", TRUE),
    Tok(<<"RYZ">>, "0", TRUE), Tok(<<"RZX">>, "0", TRUE), Tok(<<"SYMMETRY">>, "1", TRUE),
    Tok(<<"MODELCOMPONENT">>, "NO", FALSE),
    Tok(<<"RXY">>, "0", TRUE), Tok(<<"RYZ">>, "0", TRUE), Tok(<<"RZX">>, "0", TRUE),
    Tok(<<"SYMMETRY">>, "1", TRUE), Tok(<<"MODELCOMPONENT">>, "NO", FALSE)>>

\* The statements of the script in file order: the names each one reads
\* before it binds anything, and the statement that follows it
ConductorProgram ==
  [c_import    |-> [line |-> 6,   reads |-> {}, next |-> "c_detect"],
   c_detect    |-> [line |-> 9,   reads |-> {"importlib"}, next |-> "c_sqr"],
   c_sqr       |-> [line |-> 15,  reads |-> {"np"}, next |-> "c_stmt18"],
   c_stmt18    |-> [line |-> 18,  reads |-> {"a"}, next |-> "c_inputs"],
   c_inputs    |-> [line |-> 20,  reads |-> {}, next |-> "c_if"],
   c_if        |-> [line |-> 36,  reads |-> {"angle"}, next |-> "c_straight"],
   c_straight  |-> [line |-> 38,  reads |-> {"np", "sqr", "radius", "length"},
                    next |-> "c_all_points"],
   c_curved    |-> [line |-> 53,  reads |-> {"np", "sqr", "radius", "angle", "rotation_center_y"},
                    next |-> "c_all_points"],
   c_all_points |-> [line |-> 88, reads |-> {"np", "face1_corners", "face3_corners",
                                              "face1_extremes", "face2_corners",
                                              "face3_extremes"},
                    next |-> "c_comi"],
   c_comi      |-> [line |-> 94,  reads |-> {}, next |-> "c_points"],
   c_points    |-> [line |-> 96,  reads |-> {"all_points", "comi"}, next |-> "c_tail"],
   c_tail      |-> [line |-> 103, reads |-> {"comi", "current_dens", "tolerance",
                                              "drive_label", "coordinate_system"},
                    next |-> "c_print"],
   c_print     |-> [line |-> 111, reads |-> {"all_points"}, next |-> "c_output"],
   c_output    |-> [line |-> 114, reads |-> {"to_clipboard"}, next |-> "done"]]

BindAll(names, vals, st) ==
  [nm \in DOMAIN st \cup Range(names) |->
     IF nm \in Range(names) THEN vals[IndexOf(names, nm)] ELSE st[nm]]

\* What the statement at label binds, given the names it reads are bound
ConductorBinds(label, in, st) ==
  CASE label = "c_import" -> BindAll(<<"np", "importlib">>, <<"numpy", "importlib.util">>, st)
    [] label = "c_detect" ->
         IF in.pyperclip_installed
         THEN BindAll(<<"pyperclip", "to_clipboard">>, <<"pyperclip", TRUE>>, st)
         ELSE Bind("to_clipboard", FALSE, st)
    [] label = "c_sqr" -> Bind("sqr", "sqrt(2)/2", st)
    [] label = "c_inputs" ->
         BindAll(<<"length", "rotation_center_y", "angle", "radius", "current_dens",
                   "tolerance", "drive_label", "coordinate_system">>,
                 <<length, in.rotation_center_y, in.angle, "0.64", "1",
                   "0.001", "Default_Drive", "coil1_p8">>, st)
    [] label = "c_straight" ->
         BindAll(<<"face1_corners", "face1_extremes", "face2_corners", "face3_corners",
                   "face3_extremes">>,
                 <<StraightFaces.face1_corners, StraightFaces.face1_extremes,
                   StraightFaces.face2_corners, StraightFaces.face3_corners,
                   StraightFaces.face3_extremes>>, st)
    [] label = "c_curved" ->
         LET f == CurvedFaces(st["rotation_center_y"])
         IN BindAll(<<"cosd", "sind", "rotx", "i", "face1_corners", "face1_extremes",
                      "face2_corners", "face3_corners", "face3_extremes">>,
                    <<"cosd", "sind", "rotx", 3, f.face1_corners, f.face1_extremes,
                      f.face2_corners, f.face3_corners, f.face3_extremes>>, st)
    [] label = "c_all_points" -> Bind("all_points", AllPoints(st), st)
    [] label = "c_comi" -> Bind("comi", [head |-> "BRICK20 OPTION=NEW -KEEP ", toks |-> <<>>], st)
    [] label = "c_points" ->
         Bind("comi", [st["comi"] EXCEPT !.toks = @ \o PointToks(st["all_points"])], st)
    [] label = "c_tail" ->
         Bind("comi", [st["comi"] EXCEPT !.toks = @ \o TailToks], st)
    [] OTHER -> st

\* One statement of the script: a name it reads that is not bound raises
\* NameError; line 36 selects the branch; line 68 subtracts rotation_center_y
\* from an array; line 115 copies comi when to_clipboard is set
ConductorStep ==
  /\ script = "conductor" /\ pc \in DOMAIN ConductorProgram
  /\ LET s == ConductorProgram[pc]
     IN IF ~(s.reads \subseteq DOMAIN store)
        THEN /\ Raise("NameError")
             /\ UNCHANGED <<store, console, clipboard>>
        ELSE IF pc = "c_curved" /\ store["rotation_center_y"] = None
        THEN /\ Raise("TypeError")
             /\ UNCHANGED <<store, console, clipboard>>
        ELSE /\ store' = ConductorBinds(pc, inp, store)
             /\ pc' = IF pc = "c_if" /\ store["angle"] # None THEN "c_curved" ELSE s.next
             /\ clipboard' = IF pc = "c_output" /\ store["to_clipboard"]
                             THEN Append(clipboard, store["comi"]) ELSE clipboard
             /\ console' =
                  IF pc \in {"c_points", "c_print"}
                  THEN console \o [k \in 1..Len(Zip(PyRange(1, 21), store["all_points"])) |->
                                     <<"Point", Str(k), store["all_points"][k]>>]
                  ELSE IF pc = "c_output"
                  THEN Append(console,
                              IF store["to_clipboard"]
                              THEN "comi code exported to clipboard"
                              ELSE "comi code not exported to clipboard, pyperclip library not found")
                  ELSE console
             /\ UNCHANGED err
  /\ UNCHANGED <<script, inp, host, trace, files>>

\* =================================================================
\* Runs
\* =================================================================
Init ==
  /\ script \in {"example", "halbach", "conductor"}
  /\ \/ script = "example" /\ inp \in ExampleInputs /\ pc = "ex_interfaces"
     \/ script = "halbach" /\ inp \in HalbachInputs /\ pc = "h_interfaces"
     \/ script = "conductor" /\ inp \in ConductorInputs /\ pc = "c_import"
  /\ err = "none"
  /\ store = EmptyFn
  /\ host = HostInit
  /\ trace = <<>>
  /\ files = EmptyFn
  /\ console = <<>>
  /\ clipboard = <<>>

Next == ExampleNext \/ HalbachNext \/ ConductorStep

Spec == Init /\ [][Next]_vars

\* -----------------------------------------------------------------
\* The command builder of generate_circular_conductor.py (lines 94-107),
\* one append at a time, from the point arrays lines 36-92 give for the
\* inputs
\* -----------------------------------------------------------------

\* lines 103-107: the five trailing appends, each with the parameters it adds
TailAppends ==
  <<SubSeq(TailToks, 1, 2), SubSeq(TailToks, 3, 5), SubSeq(TailToks, 6, 11),
    SubSeq(TailToks, 12, 17), SubSeq(TailToks, 18, 22)>>

\* lines 96-107: every comi += in the order it is executed: XPn, YPn, ZPn
\* for each point, then the trailing appends
ComiAppends(points) ==
  [k \in 1..Len(PointToks(points)) |-> <<PointToks(points)[k]>>] \o TailAppends

\* The namespace after lines 20-92 for the inputs in
BuilderStore(in) ==
  LET st1 == ConductorBinds("c_inputs", in, EmptyFn)
      st2 == ConductorBinds(IF in.angle = None THEN "c_straight" ELSE "c_curved", in, st1)
  IN ConductorBinds("c_all_points", in, st2)

InitComi ==
  /\ script = "conductor"
  /\ inp \in {in \in ConductorInputs : in.angle = None \/ in.rotation_center_y # None}
  /\ pc = "b_comi"
  /\ err = "none"
  /\ store = BuilderStore(inp)
  /\ host = HostInit
  /\ trace = <<>>
  /\ files = EmptyFn
  /\ console = <<>>
  /\ clipboard = <<>>

\* line 94: comi = "BRICK20 OPTION=NEW -KEEP "
BuilderStart ==
  /\ script = "conductor" /\ pc = "b_comi"
  /\ store' = Bind("appends", 0, ConductorBinds("c_comi", inp, store))
  /\ pc' = "b_append"
  /\ UNCHANGED <<script, err, inp, host, trace, files, console, clipboard>>

\* lines 99-101 and 103-107: the next comi +=
BuilderAppend ==
  /\ script = "conductor" /\ pc = "b_append"
  /\ LET chunks == ComiAppends(store["all_points"])
         k == store["appends"]
     IN IF k < Len(chunks)
        THEN /\ store' = Bind("appends", k + 1,
                              Bind("comi", [store["comi"] EXCEPT !.toks = @ \o chunks[k + 1]],
                                   store))
             /\ pc' = pc
        ELSE /\ pc' = "done"
             /\ UNCHANGED store
  /\ UNCHANGED <<script, err, inp, host, trace, files, console, clipboard>>

NextComi == BuilderStart \/ BuilderAppend

SpecComi == InitComi /\ [][NextComi]_vars
\* =================================================================
\* Properties
\* =================================================================
Terminated == pc \in {"done", "error"}

\* The Halbach script has completed the statement at label
HalbachPast(label) ==
  /\ script = "halbach"
  /\ pc \in Range(HalbachOrder)
  /\ IndexOf(HalbachOrder, pc) > IndexOf(HalbachOrder, label)

IsPrefix(s, t) == Len(s) <= Len(t) /\ \A k \in 1..Len(s) : s[k] = t[k]

\* The buffer a written file was exported from
SourceBuffer(fname) ==
  IF script = "halbach" THEN host.buffers[<<"buffer_gfr_fields">>]
  ELSE host.buffers[SubSeq(fname, 1, Len(fname) - 1)]

FileMatchesBuffer(f, b, points) ==
  LET names == f.header[Len(f.header)]
  IN /\ f.delimiter = ","
     /\ names = b.columns
     /\ Len(f.rows) = points
     /\ \A r \in 1..Len(f.rows) :
          /\ Len(f.rows[r]) = Len(b.columns)
          /\ \A k \in 1..Len(names) : f.rows[r][k] = b.data[names[k]][r]

\* C1: every exported file has one row per sample point of its buffer and one
\* column per buffer field, its last header line is the column names in the
\* order of the data columns, and column k of row r is sample r of the field
\* named k-th in the header.
C1_ExportMatchesBuffer ==
  \A fname \in DOMAIN files :
    FileMatchesBuffer(files[fname], SourceBuffer(fname),
                      IF script = "halbach" THEN inp.gfr_points ELSE inp.points_in_buffer)

C1_Witness ==
  \E fname \in DOMAIN files :
    /\ Len(files[fname].rows) >= 2
    /\ Len(files[fname].rows[1]) > Len(files[fname].rows)
    /\ files[fname].rows[1][1] # files[fname].rows[2][1]

\* The host calls that build the model: materials, geometry, properties,
\* backgrounds and boundary conditions
BuildOps ==
  {"create_material", "create_bh_curve", "create_rectangle", "boolean_subtraction",
   "boolean_intersection", "boolean_nonregular_union", "copy_bodies",
   "create_properties", "set_region", "send_to_back",
   "create_boundary_condition", "set_boundary_condition"}

\* The post-processing calls: graph, buffer, line, field at point
PostOps ==
  {"create_graph", "create_buffer_from_fields_on_edges", "create_line_from_buffer",
   "plot_line", "set_line_properties", "get_column_data",
   "calculate_field_at_point", "calculate_contour_map"}

IsPostCircle(e) == e.op = "create_circle" /\ <<"post_circle">> \in e.creates
IsBuild(e) == e.op \in BuildOps \/ (e.op = "create_circle" /\ ~IsPostCircle(e))
IsPost(e) == e.op \in PostOps \/ IsPostCircle(e)

Before(j, P(_)) == \E i \in 1..(j - 1) : P(trace[i])
IsOp(op) == {k \in 1..Len(trace) : trace[k].op = op}

\* C2: in the Halbach script every build call precedes generate_mesh(), which
\* is called once and precedes solve(), which is called once and precedes
\* every post-processing call; at generate_mesh() the materials, the core, the
\* n_blocks block assignments, the backgrounds and the boundary condition are
\* all made; the .dat file is written after the buffer columns and the
\* central field have been read; and no handle is used before the call that
\* creates it.
C2_HalbachCallOrder ==
  script = "halbach" =>
    /\ Cardinality(IsOp("generate_mesh")) <= 1
    /\ Cardinality(IsOp("solve")) <= 1
    /\ \A j \in 1..Len(trace) :
         LET e == trace[j]
             IsMesh(x) == x.op = "generate_mesh"
             IsSolve(x) == x.op = "solve"
             IsRead(x) == x.op = "get_column_data"
             IsCentral(x) == x.op = "calculate_field_at_point"
             IsBc(x) == x.op = "set_boundary_condition"
             IsMaterial(x) == x.op = "create_material"
         IN /\ IsBuild(e) => ~Before(j, IsMesh) /\ ~Before(j, IsSolve)
            /\ e.op = "generate_mesh" =>
                 /\ ~Before(j, IsSolve) /\ ~Before(j, IsPost)
                 /\ Before(j, IsBc) /\ Before(j, IsMaterial)
                 /\ Cardinality({i \in 1..(j - 1) : trace[i].op = "set_region"})
                      = inp.n_blocks + 1
                 /\ Cardinality({i \in 1..(j - 1) : trace[i].op = "send_to_back"})
                      = Len(inp.bgs_factor)
            /\ e.op = "solve" => Before(j, IsMesh) /\ ~Before(j, IsPost)
            /\ IsPost(e) => Before(j, IsSolve)
            /\ e.op = "savetxt" => Before(j, IsRead) /\ Before(j, IsCentral)
            /\ e.uses \subseteq UNION {trace[i].creates : i \in 1..(j - 1)}

C2_Witness ==
  /\ script = "halbach" /\ pc = "done"
  /\ \E j \in 1..Len(trace) : trace[j].op = "savetxt"
  /\ inp.n_blocks >= 2 /\ Len(inp.bgs_factor) >= 2

\* The call and its arguments, without the handles
Call(op, args) == [op |-> op, args |-> args]
CaseOps ==
  {"create_graph", "load_case_number", "create_buffer_from_fields_on_edges",
   "create_line_from_buffer", "plot_line", "savetxt"}
InCaseOps(e) == e.op \in CaseOps
ObservedCalls ==
  LET t == SelectSeq(trace, InCaseOps)
  IN [k \in 1..Len(t) |-> Call(t[k].op, t[k].args)]

CaseBuffer(n) == <<"fields_at_">> \o Str(n)
CaseLine(n) == <<"line_at_">> \o Str(n)
CaseFile(n) == <<"fields_at_">> \o Str(n) \o <<".csv">>

\* What the loop does for case n, in order
CaseCalls(n) ==
  <<Call("load_case_number", <<Str(n)>>),
    Call("create_buffer_from_fields_on_edges", <<CaseBuffer(n)>>),
    Call("create_line_from_buffer", <<CaseLine(n), CaseBuffer(n)>>),
    Call("plot_line", <<CaseLine(n), <<"By_plot_after_pulse">>>>),
    Call("savetxt", <<CaseFile(n)>>)>>

RECURSIVE CasesCalls(_, _)
CasesCalls(first, last) ==
  IF first > last THEN <<>> ELSE CaseCalls(first) \o CasesCalls(first + 1, last)

ExpectedCalls ==
  <<Call("create_graph", <<<<"By_plot_after_pulse">>>>)>>
    \o CasesCalls(inp.initial_case, inp.final_case)

\* C3: after the graph is created once, the example script does, for the
\* cases initial_case..final_case in ascending order and once each,
\* load_case_number(n), buffer 'fields_at_n', line 'line_at_n' from that
\* buffer, plot on the graph, export to 'fields_at_n.csv'; what it has done
\* is at every moment a prefix of that sequence and, when it ends normally,
\* the whole of it (nothing for final_case < initial_case); it ends normally
\* whenever the file name prefix is set; it never stops before the end; and
\* no two cases share a buffer, line or file name.
C3_CaseLoop ==
  script = "example" =>
    /\ IsPrefix(ObservedCalls, ExpectedCalls)
    /\ pc = "done" => ObservedCalls = ExpectedCalls
    /\ pc = "done" => DOMAIN files = {CaseFile(n) : n \in inp.initial_case..inp.final_case}
    /\ inp.buffer_filename_prefix # None => err = "none"
    /\ ~Terminated => ENABLED Next
    /\ DOMAIN host.buffers \subseteq {CaseBuffer(n) : n \in inp.initial_case..inp.final_case}
    /\ DOMAIN host.lines \subseteq {CaseLine(n) : n \in inp.initial_case..inp.final_case}
    /\ \A m, n \in inp.initial_case..inp.final_case :
         m # n => /\ CaseBuffer(m) # CaseBuffer(n)
                  /\ CaseLine(m) # CaseLine(n)
                  /\ CaseFile(m) # CaseFile(n)
    /\ pc = "done" =>
         LET count == Cardinality(inp.initial_case..inp.final_case)
         IN /\ Cardinality(DOMAIN host.buffers) = count
            /\ Cardinality(DOMAIN host.lines) = count
            /\ Cardinality(DOMAIN files) = count

C3_Witness ==
  /\ script = "example" /\ pc = "done"
  /\ inp.initial_case = MinCase /\ inp.final_case = MinCase + 2
  /\ Cardinality(DOMAIN files) = 3

\* C7 (as claimed): with buffer_filename_prefix None the case loop runs to
\* completion without error, loads, buffers and plots every case, and writes
\* no file.
C7_NoExportRunsClean ==
  (script = "example" /\ inp.buffer_filename_prefix = None) =>
    /\ err = "none"
    /\ files = EmptyFn
    /\ pc = "done" =>
         \A n \in inp.initial_case..inp.final_case :
           /\ CaseBuffer(n) \in DOMAIN host.buffers
           /\ <<CaseLine(n), <<"By_plot_after_pulse">>>> \in host.plotted

\* The value of the line of lines that carries label
EntryOf(lines, label) ==
  lines[CHOOSE k \in 1..Len(lines) : lines[k].label = label]
HasEntry(lines, label) == \E k \in 1..Len(lines) : lines[k].label = label

DatFile == <<"halbach", "_gfr_fields.dat">>
DatEntries == SubSeq(files[DatFile].header, 1, Len(files[DatFile].header) - 1)

\* C8 (as claimed): in the .dat header the 'GFR radius (mm)' entry holds
\* gfr_radius, 'GFR boundary max. B (T)' holds bmax, 'GFR boundary min. B (T)'
\* holds bmin, and the file agrees with the console on the radius, the
\* central field, the minimum and the maximum.
C8_HeaderHoldsNamedQuantities ==
  (script = "halbach" /\ DatFile \in DOMAIN files) =>
    /\ EntryOf(DatEntries, "GFR radius (mm)").value = 20
    /\ EntryOf(DatEntries, "GFR boundary max. B (T)").value = store["bmax"]
    /\ EntryOf(DatEntries, "GFR boundary min. B (T)").value = store["bmin"]
    /\ EntryOf(DatEntries, "Central field (T)").value = store["b0"]
    /\ HasEntry(console, "GFR radius") =>
         /\ EntryOf(console, "GFR radius").value
              = EntryOf(DatEntries, "GFR radius (mm)").value
         /\ EntryOf(console, "B max. at GFR boundary").value
              = EntryOf(DatEntries, "GFR boundary max. B (T)").value
         /\ EntryOf(console, "B min. at GFR boundary").value
              = EntryOf(DatEntries, "GFR boundary min. B (T)").value
         /\ EntryOf(console, "Central field").value
              = EntryOf(DatEntries, "Central field (T)").value

BgId(i) == <<"bg">> \o Str(i)
Backgrounds == {id \in DOMAIN host.bodies : host.bodies[id].kind = "background"}

\* What C9 says of the bodies once the boundary conditions are assigned
BackgroundsAsClaimed ==
  LET n == Len(inp.bgs_factor)
  IN /\ Backgrounds = {BgId(i - 1) : i \in 1..n}
     /\ \A i \in 1..n :
          /\ BgId(i - 1) \in DOMAIN host.bodies
          /\ host.bodies[BgId(i - 1)].name = BgId(i - 1)
          /\ host.bodies[BgId(i - 1)].radius
               = [sym |-> "device_diameter", num |-> inp.bgs_factor[i], den |-> 20]
          /\ host.bodies[BgId(i - 1)].mesh
               = <<[sym |-> "bore_diameter", num |-> 1, den |-> inp.bgs_mesh[i]]>>
          /\ host.bodies[BgId(i - 1)].back
     /\ \A id \in DOMAIN host.bodies :
          /\ host.bodies[id].bc_edges # <<>> <=> (n >= 1 /\ id = BgId(n - 1))
          /\ host.bodies[id].bc_vertices # <<>> <=> (n >= 1 /\ id = BgId(n - 1))
          /\ host.bodies[id].bc_edges \in {<<>>, <<<<"tangent_magnetic">>>>}
          /\ host.bodies[id].bc_vertices \in {<<>>, <<<<"tangent_magnetic">>>>}

\* C9 (as claimed): for any bgs_factor and bgs_mesh of the same length the
\* script gets through the background section and leaves one circle 'bg{i}'
\* per entry, of radius 0.5*device_diameter*bgs_factor[i] and mesh size
\* bgs_mesh[i], every one sent to the back, with the tangential-magnetic
\* condition on the edges and vertices of the last one and of no other body.
C9_AnyLists ==
  (script = "halbach" /\ Len(inp.bgs_mesh) = Len(inp.bgs_factor)) =>
    /\ err = "none"
    /\ HalbachPast("h_bc_assign") => BackgroundsAsClaimed

\* C9 (amended): the same for any non-empty bgs_factor and bgs_mesh of the
\* same length.
C9_NonEmptyLists ==
  (script = "halbach" /\ Len(inp.bgs_mesh) = Len(inp.bgs_factor)
     /\ Len(inp.bgs_factor) >= 1) =>
    /\ err = "none"
    /\ HalbachPast("h_bc_assign") => BackgroundsAsClaimed

C9_Witness ==
  /\ HalbachPast("h_bc_assign")
  /\ Len(inp.bgs_factor) = 2
  /\ inp.bgs_factor[1] # inp.bgs_factor[2]
  /\ host.bodies[BgId(1)].bc_edges # <<>>

Blocks == {id \in DOMAIN host.bodies : host.bodies[id].kind = "block"}

\* C10: once the block loop is over there are n_blocks cylinders and n_blocks
\* property sets; the cylinder at i*360/n_blocks degrees is named 'block_i',
\* has material NdFeB, mesh size mesh_blocks and property 'easy-axis_i', whose
\* rotation angle is 90 + ((i*720/n_blocks) mod 360), in [90, 450); every
\* cylinder has a property and no two share one.
C10_BlocksAndProperties ==
  HalbachPast("h_block_loop") =>
    LET n == inp.n_blocks
        At(i) == {id \in Blocks :
                    host.bodies[id].angle.num * n = i * 360 * host.bodies[id].angle.den}
    IN /\ Cardinality(Blocks) = n
       /\ Cardinality(DOMAIN host.properties) = n
       /\ \A i \in 0..(n - 1) :
            /\ Cardinality(At(i)) = 1
            /\ \A id \in At(i) :
                 /\ host.bodies[id].name = <<"block_">> \o Str(i)
                 /\ host.bodies[id].material = <<<<"NdFeB">>>>
                 /\ host.bodies[id].mesh = <<[sym |-> "bore_diameter", num |-> 1, den |-> 80]>>
                 /\ host.bodies[id].properties = <<<<"easy-axis_">> \o Str(i)>>
            /\ <<"easy-axis_">> \o Str(i) \in DOMAIN host.properties
            /\ LET a == host.properties[<<"easy-axis_">> \o Str(i)].rotation_angle
               IN /\ a = <<[num |-> 90 * n + ((i * 720) % (360 * n)), den |-> n]>>
                  /\ 90 * a[1].den <= a[1].num
                  /\ a[1].num < 450 * a[1].den
       /\ \A b1, b2 \in Blocks :
            /\ host.bodies[b1].properties # <<>>
            /\ b1 # b2 => host.bodies[b1].properties # host.bodies[b2].properties

C10_Witness ==
  /\ HalbachPast("h_block_loop")
  /\ inp.n_blocks = 3
  /\ host.properties[<<"easy-axis_", "2">>].rotation_angle = <<[num |-> 630, den |-> 3]>>

\* C6 (as claimed): the conductor script runs from its imports to its final
\* message without raising: every name the statement at hand reads has been
\* bound by an earlier statement, for the straight selection and for the
\* curved one with angle and rotation_center_y set.
ConductorInputsAsDeclared ==
  script = "conductor" /\ (inp.angle = None \/ inp.rotation_center_y # None)

C6_ConductorNeverRaises ==
  ConductorInputsAsDeclared =>
    /\ err = "none"
    /\ pc \in DOMAIN ConductorProgram => ConductorProgram[pc].reads \subseteq DOMAIN store

\* The command is complete: the 60 point parameters, then the trailing ones
CommandComplete(c) ==
  /\ c.head = "BRICK20 OPTION=NEW -KEEP "
  /\ Len(c.toks) > 60
  /\ c.toks[Len(c.toks)].key = <<"MODELCOMPONENT">>

\* C4 (as claimed): without pyperclip the module is never imported or called
\* and the script still builds the complete command and finishes; with it
\* the complete command is copied exactly once, after it is fully built.
C4_ClipboardDegrades ==
  ConductorInputsAsDeclared =>
    /\ ~inp.pyperclip_installed => ("pyperclip" \notin DOMAIN store /\ clipboard = <<>>)
    /\ Len(clipboard) <= 1
    /\ \A k \in 1..Len(clipboard) : CommandComplete(clipboard[k])
    /\ Terminated =>
         /\ pc = "done"
         /\ "comi" \in DOMAIN store
         /\ CommandComplete(store["comi"])
         /\ inp.pyperclip_installed => clipboard = <<store["comi"]>>

\* Point n of the command, as XPn, YPn, ZPn carry it
CommandPoint(c, n) == c.toks[3 * n].val[1]
PointKeys(c) == {c.toks[k].key : k \in 1..Len(c.toks)}

\* C5 (as claimed): whichever geometry the angle selects, the command the
\* script ends with has exactly the 20 points 1..20, each as XPn, YPn, ZPn in
\* that order: face-1 corners (1-4), face-3 corners (5-8), face-1 extremes
\* (9-12), face-2 corners (13-16), face-3 extremes (17-20); for angle None
\* the face-1 points have z = 0, the face-2 points z = length/2, the face-3
\* points z = length, with x and y those of the matching face-1 point; the
\* curved geometry is built if and only if angle is set.
C5_TwentyPoints ==
  (ConductorInputsAsDeclared /\ Terminated) =>
    /\ "comi" \in DOMAIN store
    /\ LET c == store["comi"]
           P(n) == CommandPoint(c, n)
       IN /\ Len(c.toks) >= 60
          /\ \A n \in 1..20 :
               /\ c.toks[3 * n - 2] = [key |-> <<"XP">> \o Str(n), val |-> <<P(n), "x">>, space |-> TRUE]
               /\ c.toks[3 * n - 1] = [key |-> <<"YP">> \o Str(n), val |-> <<P(n), "y">>, space |-> TRUE]
               /\ c.toks[3 * n] = [key |-> <<"ZP">> \o Str(n), val |-> <<P(n), "z">>, space |-> TRUE]
          /\ <<"XP">> \o Str(21) \notin PointKeys(c)
          /\ <<"XP">> \o Str(0) \notin PointKeys(c)
          /\ \A n \in 1..4 :
               /\ P(n) = store["face1_corners"][n]
               /\ P(n + 4) = store["face3_corners"][n]
               /\ P(n + 8) = store["face1_extremes"][n]
               /\ P(n + 12) = store["face2_corners"][n]
               /\ P(n + 16) = store["face3_extremes"][n]
          /\ inp.angle = None =>
               \A n \in 1..4 :
                 /\ P(n).z = "0" /\ P(n + 8).z = "0"
                 /\ P(n + 12).z = "length/2"
                 /\ P(n + 4).z = "length" /\ P(n + 16).z = "length"
                 /\ P(n + 12).x = P(n).x /\ P(n + 12).y = P(n).y
                 /\ P(n + 4).x = P(n).x /\ P(n + 4).y = P(n).y
                 /\ P(n + 16).x = P(n + 8).x /\ P(n + 16).y = P(n + 8).y
                 /\ \A m \in 1..20 : P(m).rot = 0
          /\ inp.angle # None =>
               \A n \in 1..4 :
                 /\ P(n + 12).rot = 1 /\ P(n + 4).rot = 2 /\ P(n + 16).rot = 2
                 /\ P(n + 12).center = inp.rotation_center_y

\* The keys of the command, in the order they were appended
CommandKeys(c) == [k \in 1..Len(c.toks) |-> c.toks[k].key]

====
